---- MODULE Spec2Model ----
(***************************************************************************)
(* A model of vkdownloader.py: extraction of the video metadata of a page  *)
(* (get_videos), the resolution prompt (get_resolution), the main loop     *)
(* that builds the job list, and the download phase, in which              *)
(* multiprocessing.Pool(processes=4).map runs download_file on every job.  *)
(*                                                                         *)
(* Strings are sequences of one-character strings.                         *)
(***************************************************************************)
EXTENDS Integers, Sequences, FiniteSets, TLC

VARIABLES
    pc,              \* position of main: "loop", "prompt", "crashed", "download", "returned", "raised"
    pages,           \* for each path of main's argument, the page session.get(path) answers with
    pathIdx,         \* main's loop: index of the path at hand
    videos,          \* get_videos' result for the page fetched last: resolution -> raw url
    filename,        \* get_videos' result for the page fetched last: filename, or NoneName
    uncaught,        \* the exception that ended main before the download phase, or "none"
    prompts,         \* number of prompts get_resolution printed for the page at hand
    reads,           \* number of lines get_resolution read for the page at hand
    lastInput,       \* the line read last
    download_files,  \* main's job list: a sequence of <<filename, url>>
    jobMeta,         \* per job: the page it comes from, the prompts and reads spent on it
    taskqueue,       \* Pool: the tasks (chunks of the job list) no worker has taken yet
    workers,         \* Pool: the busy workers, each [task, job]: its task and the job it transfers
    jobState,        \* per job: "unstarted", "transferring", "success", "HttpStatus", "IOFailure"
    attempts,        \* per job: number of calls of download_file for it
    value,           \* MapResult._value: the result list, or the first exception
    success,         \* MapResult._success
    number_left,     \* MapResult._number_left
    title,           \* sanitize on its own: the title given
    name,            \* sanitize on its own: the name after the passes made so far
    once,            \* sanitize on its own: the name after the first pass
    passes,          \* sanitize on its own: number of passes made
    dpc,             \* download_file on its own: "idle", "get", "status", "open", "iter",
                     \* "write", "update", "done", "raised"
    status_code,     \* r.status_code of the response to session.get(url, stream=True)
    headers,         \* r.headers: <<n>> for content-length n, <<>> without the header
    iter_content,    \* the chunks r.iter_content(chunk_size=4096) yields, in order
    taken,           \* number of chunks the loop has taken from r.iter_content
    chunk,           \* the chunk at hand
    total_size,      \* total_size of line 77, -1 before it is set
    diskBefore,      \* the content of the file named filename before the call, or NoFile
    disk,            \* the content of the file named filename, or NoFile
    written,         \* number of bytes given to f.write
    bar,             \* whether the tqdm progress bar has been created
    reported         \* progress_bar.n: the bytes reported to the progress bar

mainVars == <<pc, pages, pathIdx, videos, filename, uncaught, prompts, reads, lastInput,
              download_files, jobMeta>>
poolVars == <<taskqueue, workers, jobState, attempts, value, success, number_left>>
sanitizeVars == <<title, name, once, passes>>
downloadVars == <<dpc, status_code, headers, iter_content, taken, chunk, total_size, diskBefore,
                  disk, written, bar, reported>>
vars == <<mainVars, poolVars, sanitizeVars, downloadVars>>

----------------------------------------------------------------------------
(* Bounds of the model *)

\* the largest job list of the download phase; more than Processes * 4 jobs
\* makes Pool.map hand out tasks of two jobs
MaxJobs == 17
\* job lists of every length up to this one are explored as well
MaxSmallJobs == 5
\* at most this many downloads fail in one run
MaxFailures == 1
\* the longest title given to sanitize on its own
MaxTitleLen == 3
\* the number of invalid lines one call of get_resolution is given at most
MaxInvalid == 2
\* the largest number of paths given to main
MaxPaths == 2
\* the largest number of fields of a script element of a page
MaxFields == 3

\* the largest number of chunks of a response body
MaxChunks == 3

----------------------------------------------------------------------------
(* Strings: sequences of characters.  A character is a one-character string; the  *)
(* code points outside ASCII that the model uses are written U+xxxx.              *)

Min(a, b) == IF a < b THEN a ELSE b
SetMin(S) == CHOOSE x \in S : \A y \in S : x <= y
SetMax(S) == CHOOSE x \in S : \A y \in S : x >= y

Quote == "\""
Backslash == "\\"
JamoL == "U+1100"       \* HANGUL CHOSEONG KIYEOK, a letter (Lo)
JamoV == "U+1161"       \* HANGUL JUNGSEONG A, a letter (Lo)
Syllable == "U+AC00"    \* HANGUL SYLLABLE GA = NFC of U+1100 U+1161
Nbsp == "U+00A0"        \* NO-BREAK SPACE, compatibility-equivalent to " "

Digits == {"0", "1", "2", "3", "4", "5", "6", "7", "8", "9"}
Letters ==
    {"a", "b", "c", "d", "e", "f", "g", "h", "i", "j", "k", "l", "m", "n", "o", "p", "q",
     "r", "s", "t", "u", "v", "w", "x", "y", "z", "A", "B", "C", "D", "E", "F", "G", "H",
     "I", "J", "K", "L", "M", "N", "O", "P", "Q", "R", "S", "T", "U", "V", "W", "X", "Y",
     "Z", JamoL, JamoV, Syllable}

\* re: \d, \w and \s of a str pattern
IsDigit(c) == c \in Digits
IsWord(c) == c \in Letters \cup Digits \cup {"_"}
Spaces == {" ", "\t", "\n", Nbsp}
IsSpace(c) == c \in Spaces

\* s[i:].startswith(lit)
StartsAt(s, i, lit) ==
    /\ i + Len(lit) - 1 <= Len(s)
    /\ SubSeq(s, i, i + Len(lit) - 1) = lit

\* lit in s
Contains(s, lit) == \E k \in 1..Len(s) : StartsAt(s, k, lit)

\* the end of the longest run of characters of a set from position p on: the first
\* position from p on that holds no character of the set
SpanEnd(s, p, chars) ==
    LET stops == {k \in p..Len(s) : s[k] \notin chars}
    IN IF stops = {} THEN Len(s) + 1 ELSE SetMin(stops)

\* the same for the characters outside a set
SpanEndNot(s, p, chars) ==
    LET stops == {k \in p..Len(s) : s[k] \in chars}
    IN IF stops = {} THEN Len(s) + 1 ELSE SetMin(stops)

\* str.strip(chars)
Strip(s, chars) ==
    LET keep == {k \in 1..Len(s) : s[k] \notin chars}
    IN IF keep = {} THEN <<>> ELSE SubSeq(s, SetMin(keep), SetMax(keep))

----------------------------------------------------------------------------
(* get_videos, lines 58-61: the filename made of a title *)

\* unicodedata.normalize("NFKC", name), first half: compatibility decomposition
RECURSIVE Decompose(_)
Decompose(s) ==
    IF s = <<>> THEN <<>>
    ELSE (CASE Head(s) = Syllable -> <<JamoL, JamoV>>
            [] Head(s) = Nbsp -> <<" ">>
            [] OTHER -> <<Head(s)>>) \o Decompose(Tail(s))

\* unicodedata.normalize("NFKC", name), second half: canonical composition of
\* adjacent characters
RECURSIVE Compose(_)
Compose(s) ==
    IF s = <<>> THEN <<>>
    ELSE IF Len(s) >= 2 /\ s[1] = JamoL /\ s[2] = JamoV
         THEN <<Syllable>> \o Compose(SubSeq(s, 3, Len(s)))
         ELSE <<Head(s)>> \o Compose(Tail(s))

\* name = unicodedata.normalize("NFKC", name)
Normalize(s) == Compose(Decompose(s))

\* name = re.sub(r"[^\w\s-]", "", name)
RemoveOthers(s) == SelectSeq(s, LAMBDA c : IsWord(c) \/ IsSpace(c) \/ c = "-")

IsHyphenOrSpace(c) == c = "-" \/ IsSpace(c)

\* re.sub(r"[-\s]+", "-", name)
RECURSIVE Collapse(_)
Collapse(s) ==
    IF s = <<>> THEN <<>>
    ELSE IF IsHyphenOrSpace(Head(s))
         THEN <<"-">> \o Collapse(SubSeq(s, SpanEnd(s, 1, {"-"} \cup Spaces), Len(s)))
         ELSE <<Head(s)>> \o Collapse(Tail(s))

\* the hyphens and underscores at the ends are kept
SanitizeUnstripped(s) == Collapse(RemoveOthers(Normalize(s)))

\* lines 59-61
Sanitize(s) == Strip(Collapse(RemoveOthers(Normalize(s))), {"-", "_"})

----------------------------------------------------------------------------
(* get_videos, lines 41-63 *)

Marker == <<"a", "l", "_", "v", "i", "d", "e", "o", ".", "p", "h", "p">>
UrlKey == <<Quote, "u", "r", "l">>
TitleKey == <<Quote, "t", "i", "t", "l", "e", Quote, ":">>
Mp4 == <<".", "m", "p", "4">>
\* None, as a filename: the token is no character, so no string equals it
NoneName == <<"None">>
NoMatch == [ok |-> FALSE, key |-> <<>>, val |-> <<>>, end |-> 0]

\* the common tail of both patterns, matched from position p on: \s*"([^"]+)"
MatchValue(s, p, key) ==
    LET q == SpanEnd(s, p, Spaces)        \* \s*
        v == q + 1                        \* after the opening quote
        e == SpanEndNot(s, v, {Quote})    \* [^"]+
    IN IF /\ StartsAt(s, q, <<Quote>>)
          /\ e > v
          /\ e <= Len(s)
       THEN [ok |-> TRUE, key |-> key, val |-> SubSeq(s, v, e - 1), end |-> e]
       ELSE NoMatch

\* pattern_url = r'"url(\d+)":\s*"([^"]+)"' matched at position p
MatchUrl(s, p) ==
    LET d == p + Len(UrlKey)
        c == SpanEnd(s, d, Digits)        \* (\d+)
    IN IF StartsAt(s, p, UrlKey) /\ c > d /\ StartsAt(s, c, <<Quote, ":">>)
       THEN MatchValue(s, c + 2, SubSeq(s, d, c - 1))
       ELSE NoMatch

\* pattern_name = r'"title":\s*"([^"]+)"' matched at position p
MatchTitle(s, p) ==
    IF StartsAt(s, p, TitleKey)
    THEN MatchValue(s, p + Len(TitleKey), <<>>)
    ELSE NoMatch

MatchAt(pattern, s, p) ==
    IF pattern = "pattern_url" THEN MatchUrl(s, p) ELSE MatchTitle(s, p)

\* re.findall(pattern, s) from position p on: the leftmost match, then the matches
\* after its end
RECURSIVE FindAll(_, _, _)
FindAll(pattern, s, p) ==
    LET starts == {q \in p..Len(s) : MatchAt(pattern, s, q).ok}
    IN IF starts = {} THEN <<>>
       ELSE <<MatchAt(pattern, s, SetMin(starts))>>
                \o FindAll(pattern, s, MatchAt(pattern, s, SetMin(starts)).end + 1)

DigitValue(c) == CHOOSE n \in 0..9 : <<"0", "1", "2", "3", "4", "5", "6", "7", "8", "9">>[n + 1] = c

\* int(number) of a string of digits
RECURSIVE DecValue(_)
DecValue(ds) ==
    IF ds = <<>> THEN 0
    ELSE 10 * DecValue(SubSeq(ds, 1, Len(ds) - 1)) + DigitValue(ds[Len(ds)])

\* videos = {int(number): value for number, value in matches_url}: a later match
\* of a key replaces an earlier one
VideosDict(matches) ==
    [n \in {DecValue(matches[k].key) : k \in 1..Len(matches)} |->
        matches[SetMax({k \in 1..Len(matches) : DecValue(matches[k].key) = n})].val]

\* lines 49-63: the result made of the text of the one element found
ExtractBlock(text) ==
    LET names == FindAll("pattern_name", text, 1)
    IN IF names = <<>>       \* re.findall(pattern_name, e.text)[0]
       THEN [videos |-> <<>>, filename |-> NoneName, raised |-> "IndexError"]
       ELSE [videos |-> VideosDict(FindAll("pattern_url", text, 1)),
             filename |-> Sanitize(names[1].val) \o Mp4,
             raised |-> "none"]

\* lines 43-44: the script elements of type module whose text holds the marker
FindElements(content) ==
    SelectSeq(SelectSeq(content, LAMBDA e : e.tag = "script" /\ e.type = "module"),
              LAMBDA e : Contains(e.text, Marker))

\* the first element found stands for the page, however many there are
GetVideosOfFirst(content) ==
    IF Len(FindElements(content)) = 0
    THEN [videos |-> <<>>, filename |-> NoneName, raised |-> "none"]
    ELSE ExtractBlock(FindElements(content)[1].text)

\* get_videos(session, path), given the elements of the parsed response: each
\* [tag, type, text]
GetVideos(content) ==
    IF Len(FindElements(content)) # 1
    THEN [videos |-> <<>>, filename |-> NoneName, raised |-> "none"]
    ELSE ExtractBlock(FindElements(content)[1].text)

----------------------------------------------------------------------------
(* The pages the paths answer with.  A page is described by its elements, each      *)
(* [tag, type, marker, fields]: the element's text is the marker, if it has it, and  *)
(* its fields as the server writes them: "url<digits>":<ws>"<segments joined by \/>" *)
(* and "title":<ws>"<text>".                                                         *)

RECURSIVE Join(_, _)
Join(segs, sep) ==
    IF segs = <<>> THEN <<>>
    ELSE IF Len(segs) = 1 THEN segs[1]
         ELSE segs[1] \o sep \o Join(Tail(segs), sep)

UrlField(digits, ws, segs) ==
    [kind |-> "url", digits |-> digits, ws |-> ws, segs |-> segs, text |-> <<>>]
TitleField(ws, text) ==
    [kind |-> "title", digits |-> <<>>, ws |-> ws, segs |-> <<>>, text |-> text]

RawUrl(f) == Join(f.segs, <<Backslash, "/">>)

FieldText(f) ==
    IF f.kind = "url"
    THEN UrlKey \o f.digits \o <<Quote, ":">> \o f.ws \o <<Quote>> \o RawUrl(f) \o <<Quote, ",">>
    ELSE TitleKey \o f.ws \o <<Quote>> \o f.text \o <<Quote, ",">>

RECURSIVE FieldsText(_)
FieldsText(fs) == IF fs = <<>> THEN <<>> ELSE FieldText(Head(fs)) \o FieldsText(Tail(fs))

ElementText(e) ==
    (IF e.marker THEN Marker ELSE <<"i", "n", "i", "t">>) \o <<"(", "{">>
        \o FieldsText(e.fields) \o <<"}", ")">>

\* BeautifulSoup(response.content, "html.parser"): the elements of the page
ParsedResponse(page) ==
    [k \in 1..Len(page) |->
        [tag |-> page[k].tag, type |-> page[k].type, text |-> ElementText(page[k])]]

VideoScript(fs) == [tag |-> "script", type |-> "module", marker |-> TRUE, fields |-> fs]
OtherModule(fs) == [tag |-> "script", type |-> "module", marker |-> FALSE, fields |-> fs]
PlainScript(fs) == [tag |-> "script", type |-> "text/javascript", marker |-> TRUE, fields |-> fs]
Division(fs) == [tag |-> "div", type |-> "module", marker |-> TRUE, fields |-> fs]

HostA == << <<"h", "t", "t", "p", ":">>, <<>>, <<"x">>, <<"a", ".", "m", "p", "4">> >>
HostB == << <<"h", "t", "t", "p", ":">>, <<>>, <<"x">>, <<"b", ".", "m", "p", "4">> >>
HostC == << <<"c">> >>
Url720 == UrlField(<<"7", "2", "0">>, <<>>, HostA)
Url1080 == UrlField(<<"1", "0", "8", "0">>, <<" ">>, HostB)
Url0720 == UrlField(<<"0", "7", "2", "0">>, <<>>, HostC)
TitleMyClip == TitleField(<<" ">>, <<"M", "y", " ", "C", "l", "i", "p", "!">>)
TitleA == TitleField(<<>>, <<"a">>)
TitleEmpty == TitleField(<<>>, <<>>)
TitleBang == TitleField(<<>>, <<"!">>)

FieldChoices == {Url720, Url1080, Url0720, TitleMyClip, TitleA, TitleEmpty}

RECURSIVE ListsUpTo(_, _)
ListsUpTo(S, n) ==
    IF n = 0 THEN {<<>>}
    ELSE LET shorter == ListsUpTo(S, n - 1)
         IN shorter \cup {Append(l, x) : l \in shorter, x \in S}

----------------------------------------------------------------------------
(* get_resolution, lines 104-117, and main's loop over the paths, lines 143-156 *)

\* only the first escaped separator is replaced
UnescapeFirst(s) ==
    LET at == {k \in 1..(Len(s) - 1) : s[k] = Backslash /\ s[k + 1] = "/"}
    IN IF at = {} THEN s
       ELSE SubSeq(s, 1, SetMin(at) - 1) \o <<"/">> \o SubSeq(s, SetMin(at) + 2, Len(s))

\* re.sub(r"\\/", "/", url)
RECURSIVE Unescape(_)
Unescape(s) ==
    IF s = <<>> THEN <<>>
    ELSE IF Len(s) >= 2 /\ s[1] = Backslash /\ s[2] = "/"
         THEN <<"/">> \o Unescape(SubSeq(s, 3, Len(s)))
         ELSE <<Head(s)>> \o Unescape(Tail(s))

\* the sign of the text is dropped
ParseIntUnsigned(text) ==
    LET t == Strip(text, Spaces)
        body == IF t # <<>> /\ t[1] \in {"+", "-"} THEN Tail(t) ELSE t
    IN IF body # <<>> /\ \A k \in 1..Len(body) : IsDigit(body[k])
       THEN [ok |-> TRUE, val |-> DecValue(body)]
       ELSE [ok |-> FALSE, val |-> 0]

\* int(text) of a str: blanks around it, a sign, then digits, single underscores
\* between digits allowed; anything else raises ValueError
ParseInt(text) ==
    LET t == Strip(text, Spaces)
        signed == t # <<>> /\ t[1] \in {"+", "-"}
        body == IF signed THEN Tail(t) ELSE t
        wellFormed ==
            /\ body # <<>>
            /\ \A k \in 1..Len(body) : IsDigit(body[k]) \/ body[k] = "_"
            /\ body[1] # "_"
            /\ body[Len(body)] # "_"
            /\ \A k \in 1..(Len(body) - 1) : ~(body[k] = "_" /\ body[k + 1] = "_")
        magnitude == DecValue(SelectSeq(body, IsDigit))
    IN IF wellFormed
       THEN [ok |-> TRUE, val |-> IF signed /\ t[1] = "-" THEN 0 - magnitude ELSE magnitude]
       ELSE [ok |-> FALSE, val |-> 0]

\* line 158 is reached with the last path still to fetch
NextPcBeforeLast(k) == IF k >= Len(pages) THEN "download" ELSE "loop"

\* where main goes on after the path at index k - 1: the next path, or line 158
NextPc(k) == IF k > Len(pages) THEN "download" ELSE "loop"

\* download_files.append([filename, formatted_url]), and on to the next path
AppendJob(name_, url, resolution) ==
    /\ download_files' = Append(download_files, <<name_, Unescape(url)>>)
    /\ jobMeta' = Append(jobMeta, [page |-> pathIdx, resolution |-> resolution,
                                   prompts |-> prompts', reads |-> reads'])
    /\ pathIdx' = pathIdx + 1
    /\ pc' = NextPc(pathIdx + 1)

\* a prompt for every page that has videos
SeveralOrOne(v) == Cardinality(DOMAIN v) >= 1

\* line 149: if len(videos) > 1
Several(v) == Cardinality(DOMAIN v) > 1

\* a page of one resolution is passed over as well
NotVideosOrOne(v) == Cardinality(DOMAIN v) <= 1

\* line 146: if not videos
NotVideos(v) == DOMAIN v = {}

\* one pass of main's loop up to the append, or up to the first prompt of
\* get_resolution
FetchPage ==
    /\ pc = "loop"
    /\ LET r == GetVideos(ParsedResponse(pages[pathIdx]))
       IN IF r.raised # "none"
          THEN /\ pc' = "crashed"
               /\ uncaught' = r.raised
               /\ UNCHANGED <<pathIdx, videos, filename, prompts, reads, download_files, jobMeta>>
          ELSE /\ videos' = r.videos
               /\ filename' = r.filename
               /\ reads' = 0
               /\ UNCHANGED uncaught
               /\ IF NotVideos(r.videos)                      \* if not videos: continue
                  THEN /\ prompts' = 0
                       /\ pathIdx' = pathIdx + 1
                       /\ pc' = NextPc(pathIdx + 1)
                       /\ UNCHANGED <<download_files, jobMeta>>
                  ELSE IF Several(r.videos)                   \* get_resolution(sorted(...))
                       THEN /\ prompts' = 1
                            /\ pc' = "prompt"
                            /\ UNCHANGED <<pathIdx, download_files, jobMeta>>
                       ELSE /\ prompts' = 0
                            /\ LET only == CHOOSE n \in DOMAIN r.videos : TRUE
                               IN AppendJob(r.filename, r.videos[only], only)
    /\ UNCHANGED <<pages, lastInput, poolVars, sanitizeVars, downloadVars>>

\* resol in options, with options = sorted(videos.keys())
InOptions(resol) == resol \in DOMAIN videos

\* get_resolution: one line read at the prompt; a member of the options returns to
\* main, which appends the job; anything else prints a message and prompts again
ReadInput(line) ==
    /\ pc = "prompt"
    /\ lastInput' = line
    /\ reads' = reads + 1
    /\ LET resol == ParseInt(Strip(line, Spaces))
       IN IF resol.ok /\ InOptions(resol.val)
          THEN /\ prompts' = prompts
               /\ AppendJob(filename, videos[resol.val], resol.val)
          ELSE /\ reads < MaxInvalid
               /\ prompts' = prompts + 1
               /\ UNCHANGED <<pc, pathIdx, download_files, jobMeta>>
    /\ UNCHANGED <<pages, videos, filename, uncaught, poolVars, sanitizeVars, downloadVars>>

\* get_resolution: input() at the end of the input raises EOFError, which nothing catches
EndOfInput ==
    /\ pc = "prompt"
    /\ pc' = "crashed"
    /\ uncaught' = "EOFError"
    /\ UNCHANGED <<pages, pathIdx, videos, filename, prompts, reads, lastInput,
                   download_files, jobMeta, poolVars, sanitizeVars, downloadVars>>

----------------------------------------------------------------------------
(* The download phase: multiprocessing.Pool(processes=4).map *)

\* a pool of one process too many
ProcessesOffByOne == 4 + 1

\* multiprocessing.Pool(processes=4)
Processes == 4

NumJobs == Len(download_files)

\* Pool._map_async: chunksize, extra = divmod(len(iterable), len(self._pool) * 4);
\* if extra: chunksize += 1
ChunkSize(n) == (n \div (Processes * 4)) + (IF n % (Processes * 4) # 0 THEN 1 ELSE 0)

\* MapResult.__init__: number_left = length // chunksize + bool(length % chunksize)
NumTasks(n) ==
    IF n = 0 THEN 0
    ELSE (n \div ChunkSize(n)) + (IF n % ChunkSize(n) # 0 THEN 1 ELSE 0)

\* Pool._get_tasks: task c holds the jobs of slice [(c-1)*chunksize, c*chunksize)
FirstJob(c) == (c - 1) * ChunkSize(NumJobs) + 1
LastJob(c) == Min(c * ChunkSize(NumJobs), NumJobs)

NoneResult == "None"
Failed == {"HttpStatus", "IOFailure"}
Terminal == {"success"} \cup Failed
NumFailed == Cardinality({j \in 1..NumJobs : jobState[j] \in Failed})

\* with multiprocessing.Pool(processes=4) as pool: pool.map(partial_worker, download_files)
PoolMap ==
    /\ pc = "download"
    /\ number_left = -1
    /\ taskqueue' = [c \in 1..NumTasks(NumJobs) |-> c]
    /\ number_left' = NumTasks(NumJobs)
    /\ value' = [j \in 1..NumJobs |-> NoneResult]
    /\ success' = TRUE
    /\ jobState' = [j \in 1..NumJobs |-> "unstarted"]
    /\ attempts' = [j \in 1..NumJobs |-> 0]
    /\ pc' = IF NumJobs = 0 THEN "returned" ELSE "download"
    /\ UNCHANGED workers

\* MapResult._set(i, (success, result)) followed by the wake-up of pool.map's get()
\* once every task has reported
SetResult(c, ok, exc) ==
    /\ number_left' = number_left - 1
    /\ IF ok /\ success
       THEN /\ value' = value   \* value[i*chunksize:(i+1)*chunksize] = [None, ...]
            /\ success' = success
       ELSE IF ~ok /\ success
            THEN /\ success' = FALSE
                 /\ value' = exc
            ELSE UNCHANGED <<value, success>>
    /\ pc' = IF number_left' = 0
             THEN (IF success' THEN "returned" ELSE "raised")
             ELSE pc

\* download_file(session, filename, url) up to the opening of the destination, for job j
\* of task c: session.get(url, stream=True), r.raise_for_status(), open(filename, "wb").
\* An error status raises out of mapstar, which ends the task: its result is the
\* exception, and the jobs after j in the task are not run.
StartJob(c, j, busy, states) ==
    /\ attempts' = [attempts EXCEPT ![j] = @ + 1]
    /\ \/ /\ jobState' = [states EXCEPT ![j] = "transferring"]
          /\ workers' = busy \cup {[task |-> c, job |-> j]}
          /\ UNCHANGED <<pc, value, success, number_left>>
       \/ /\ NumFailed < MaxFailures
          /\ jobState' = [states EXCEPT ![j] = "HttpStatus"]
          /\ workers' = busy
          /\ SetResult(c, FALSE, [exception |-> "HttpStatus"])

\* worker loop of multiprocessing.pool: an idle worker gets the next task from the
\* shared task queue and calls mapstar, which calls worker(session, params) for the
\* first job of the task
TakeTask ==
    /\ pc = "download"
    /\ number_left >= 0
    /\ taskqueue # <<>>
    /\ Cardinality(workers) < Processes
    /\ taskqueue' = Tail(taskqueue)
    /\ StartJob(Head(taskqueue), FirstJob(Head(taskqueue)), workers, jobState)

\* download_file's loop over r.iter_content to its end, or to an exception of f.write;
\* then mapstar goes on to the next job of the task, or the task's result is reported
Transfer(w) ==
    /\ w \in workers
    /\ \/ IF w.job < LastJob(w.task)
          THEN StartJob(w.task, w.job + 1, workers \ {w},
                        [jobState EXCEPT ![w.job] = "success"])
          ELSE /\ jobState' = [jobState EXCEPT ![w.job] = "success"]
               /\ workers' = workers \ {w}
               /\ SetResult(w.task, TRUE, NoneResult)
               /\ UNCHANGED attempts
       \/ /\ NumFailed < MaxFailures
          /\ jobState' = [jobState EXCEPT ![w.job] = "IOFailure"]
          /\ workers' = workers \ {w}
          /\ SetResult(w.task, FALSE, [exception |-> "IOFailure"])
          /\ UNCHANGED attempts
    /\ UNCHANGED taskqueue

----------------------------------------------------------------------------
(* The download phase on its own, from line 158 of main *)

Digit(n) == <<"0", "1", "2", "3", "4", "5", "6", "7", "8", "9">>[n + 1]

PoolJob(k) ==
    << <<"v", Digit(k \div 10), Digit(k % 10), ".", "m", "p", "4">>,
       <<"u", Digit(k \div 10), Digit(k % 10)>> >>

JobCounts == (0..MaxSmallJobs) \cup {MaxJobs}

InitPoolVars ==
    /\ taskqueue = <<>>
    /\ workers = {}
    /\ jobState = [j \in 1..NumJobs |-> "unstarted"]
    /\ attempts = [j \in 1..NumJobs |-> 0]
    /\ value = NoneResult
    /\ success = TRUE
    /\ number_left = -1

InitSanitizeVars ==
    /\ title = <<>>
    /\ name = <<>>
    /\ once = <<>>
    /\ passes = 0

\* no file: the token is no byte, so no content equals it
NoFile == <<"NoFile">>

InitDownloadVars ==
    /\ dpc = "idle"
    /\ status_code = 200
    /\ headers = <<>>
    /\ iter_content = <<>>
    /\ taken = 0
    /\ chunk = <<>>
    /\ total_size = -1
    /\ diskBefore = NoFile
    /\ disk = NoFile
    /\ written = 0
    /\ bar = FALSE
    /\ reported = 0

InitPool ==
    /\ pc = "download"
    /\ pages = <<>>
    /\ pathIdx = 1
    /\ videos = <<>>
    /\ filename = NoneName
    /\ uncaught = "none"
    /\ prompts = 0
    /\ reads = 0
    /\ lastInput = <<>>
    /\ \E n \in JobCounts :
          /\ download_files = [k \in 1..n |-> PoolJob(k)]
          /\ jobMeta = <<>>
    /\ InitPoolVars
    /\ InitSanitizeVars
    /\ InitDownloadVars

\* the steps of the download phase change the position of main and the pool only
PoolStep(A) ==
    /\ A
    /\ UNCHANGED <<pages, pathIdx, videos, filename, uncaught, prompts, reads, lastInput,
                   download_files, jobMeta, sanitizeVars, downloadVars>>

NextPool ==
    \/ PoolStep(PoolMap)
    \/ PoolStep(TakeTask)
    \/ \E w \in workers : PoolStep(Transfer(w))

SpecPool == InitPool /\ [][NextPool]_vars

----------------------------------------------------------------------------
(* One call of download_file(session, filename, url), step by step *)

\* only a server error raises
IsServerError(code) == 500 <= code /\ code < 600

\* r.raise_for_status(): HTTPError for a client error (4xx) or a server error (5xx)
IsError(code) == 400 <= code /\ code < 600

\* the bar moves by one byte more than the chunk holds
LenPlusOne(c) == Len(c) + 1

\* len(chunk) of line 90
LenChunk(c) == Len(c)

\* session.get(url, stream=True): the response headers are in, the body is not read
\* yet; or the request fails (ConnectionError)
Get ==
    /\ dpc = "get"
    /\ dpc' \in {"status", "raised"}
    /\ UNCHANGED <<status_code, headers, iter_content, taken, chunk, total_size, diskBefore,
                   disk, written, bar, reported>>

\* r.raise_for_status(); total_size = int(r.headers.get("content-length", 0))
RaiseForStatus ==
    /\ dpc = "status"
    /\ IF IsError(status_code)
       THEN /\ dpc' = "raised"
            /\ UNCHANGED total_size
       ELSE /\ dpc' = "open"
            /\ total_size' = IF headers = <<>> THEN 0 ELSE headers[1]
    /\ UNCHANGED <<status_code, headers, iter_content, taken, chunk, diskBefore, disk, written,
                   bar, reported>>

\* open(filename, "wb") creates the file or truncates it; tqdm(total=total_size, ...)
Open ==
    /\ dpc = "open"
    /\ disk' = <<>>
    /\ bar' = TRUE
    /\ dpc' = "iter"
    /\ UNCHANGED <<status_code, headers, iter_content, taken, chunk, total_size, diskBefore,
                   written, reported>>

\* for chunk in r.iter_content(chunk_size=4096): if chunk: the next chunk, the end of
\* the stream, which leaves the with blocks, or a failure of the connection
IterContent ==
    /\ dpc = "iter"
    /\ \/ /\ taken < Len(iter_content)
          /\ taken' = taken + 1
          /\ chunk' = iter_content[taken + 1]
          /\ dpc' = IF iter_content[taken + 1] # <<>> THEN "write" ELSE "iter"
       \/ /\ taken = Len(iter_content)
          /\ dpc' = "done"
          /\ UNCHANGED <<taken, chunk>>
       \/ /\ taken < Len(iter_content)
          /\ dpc' = "raised"
          /\ UNCHANGED <<taken, chunk>>
    /\ UNCHANGED <<status_code, headers, iter_content, total_size, diskBefore, disk, written,
                   bar, reported>>

\* f.write(chunk), or its failure (OSError)
Write ==
    /\ dpc = "write"
    /\ \/ /\ disk' = disk \o chunk
          /\ written' = written + Len(chunk)
          /\ dpc' = "update"
       \/ /\ dpc' = "raised"
          /\ UNCHANGED <<disk, written>>
    /\ UNCHANGED <<status_code, headers, iter_content, taken, chunk, total_size, diskBefore,
                   bar, reported>>

\* progress_bar.update(len(chunk))
Update ==
    /\ dpc = "update"
    /\ reported' = reported + LenChunk(chunk)
    /\ dpc' = "iter"
    /\ UNCHANGED <<status_code, headers, iter_content, taken, chunk, total_size, diskBefore,
                   disk, written, bar>>

Statuses == {200, 404, 500}
Chunks == {<<>>, <<"x">>, <<"x", "y">>}
Files == {NoFile, <<>>, <<"o", "l", "d">>}

RECURSIVE SumLen(_)
SumLen(cs) == IF cs = <<>> THEN 0 ELSE Len(Head(cs)) + SumLen(Tail(cs))

InitDownload ==
    /\ dpc = "get"
    /\ status_code \in Statuses
    /\ iter_content \in ListsUpTo(Chunks, MaxChunks)
    /\ headers \in {<<>>, <<SumLen(iter_content)>>}
    /\ taken = 0
    /\ chunk = <<>>
    /\ total_size = -1
    /\ diskBefore \in Files
    /\ disk = diskBefore
    /\ written = 0
    /\ bar = FALSE
    /\ reported = 0
    /\ pc = "download"
    /\ pages = <<>>
    /\ pathIdx = 1
    /\ videos = <<>>
    /\ filename = NoneName
    /\ uncaught = "none"
    /\ prompts = 0
    /\ reads = 0
    /\ lastInput = <<>>
    /\ download_files = <<>>
    /\ jobMeta = <<>>
    /\ InitPoolVars
    /\ InitSanitizeVars

DownloadStep(A) ==
    /\ A
    /\ UNCHANGED <<mainVars, poolVars, sanitizeVars>>

NextDownload ==
    \/ DownloadStep(Get)
    \/ DownloadStep(RaiseForStatus)
    \/ DownloadStep(Open)
    \/ DownloadStep(IterContent)
    \/ DownloadStep(Write)
    \/ DownloadStep(Update)

SpecDownload == InitDownload /\ [][NextDownload]_vars

----------------------------------------------------------------------------
(* The whole program: main(paths) *)

InputLines ==
    { <<"7", "2", "0">>, <<" ", "1", "0", "8", "0", " ">>, <<"+", "7", "2", "0">>,
      <<"4", "8", "0">>, <<"-", "7", "2", "0">>, <<"7", "2", "o">>, <<>> }

InitMain(Pages, maxPaths) ==
    /\ pages \in ListsUpTo(Pages, maxPaths)
    /\ pathIdx = 1
    /\ pc = NextPc(1)
    /\ videos = <<>>
    /\ filename = NoneName
    /\ uncaught = "none"
    /\ prompts = 0
    /\ reads = 0
    /\ lastInput = <<>>
    /\ download_files = <<>>
    /\ jobMeta = <<>>
    /\ InitPoolVars
    /\ InitSanitizeVars
    /\ InitDownloadVars

MainPages ==
    { <<>>,
      <<VideoScript(<<Url720, TitleMyClip>>)>>,
      <<PlainScript(<<Url720>>), VideoScript(<<Url720, Url1080, TitleMyClip>>)>>,
      <<VideoScript(<<Url720, TitleA>>), VideoScript(<<Url1080, TitleA>>)>>,
      <<VideoScript(<<Url720, Url1080>>)>>,
      <<VideoScript(<<TitleMyClip>>)>>,
      <<VideoScript(<<Url720, TitleBang>>)>> }

Init == InitMain(MainPages, MaxPaths)

Next ==
    \/ FetchPage
    \/ \E line \in InputLines : ReadInput(line)
    \/ EndOfInput
    \/ PoolStep(PoolMap)
    \/ PoolStep(TakeTask)
    \/ \E w \in workers : PoolStep(Transfer(w))

Spec == Init /\ [][Next]_vars

----------------------------------------------------------------------------
(* The extraction of one page, over pages of every shape *)

FieldLists == ListsUpTo(FieldChoices, MaxFields)

ExtractPages ==
    {<<VideoScript(fs)>> : fs \in FieldLists}
    \cup {<<OtherModule(fs)>> : fs \in ListsUpTo({Url720, TitleA}, 2)}
    \cup {<<e1, e2>> : e1, e2 \in {VideoScript(<<Url720, TitleA>>),
                                   VideoScript(<<Url1080, Url720, TitleMyClip>>),
                                   OtherModule(<<Url720, TitleA>>),
                                   PlainScript(<<Url720, TitleA>>),
                                   Division(<<Url1080, TitleA>>)}}
    \cup {<<VideoScript(<<Url720, TitleA>>), VideoScript(<<Url720, TitleA>>),
            VideoScript(<<Url1080, TitleA>>)>>}

InitExtract == InitMain(ExtractPages, 1)

NextExtract ==
    \/ FetchPage
    \/ \E line \in InputLines : ReadInput(line)
    \/ EndOfInput

SpecExtract == InitExtract /\ [][NextExtract]_vars

----------------------------------------------------------------------------
(* sanitize on its own: lines 59-61 applied to a title, and again to their result *)

TitleChars == {"a", "_", "-", " ", "!", JamoL, JamoV, Syllable, Nbsp}

RECURSIVE StringsUpTo(_, _)
StringsUpTo(chars, n) ==
    IF n = 0 THEN {<<>>}
    ELSE LET shorter == StringsUpTo(chars, n - 1)
         IN shorter \cup {Append(s, c) : s \in shorter, c \in chars}

InitSanitize ==
    /\ title \in StringsUpTo(TitleChars, MaxTitleLen)
    /\ name = title
    /\ once = <<>>
    /\ passes = 0
    /\ pc = "download"
    /\ pages = <<>>
    /\ pathIdx = 1
    /\ videos = <<>>
    /\ filename = NoneName
    /\ uncaught = "none"
    /\ prompts = 0
    /\ reads = 0
    /\ lastInput = <<>>
    /\ download_files = <<>>
    /\ jobMeta = <<>>
    /\ InitPoolVars
    /\ InitDownloadVars

SanitizePass ==
    /\ passes < 2
    /\ name' = Sanitize(name)
    /\ once' = IF passes = 0 THEN Sanitize(name) ELSE once
    /\ passes' = passes + 1
    /\ UNCHANGED <<title, mainVars, poolVars, downloadVars>>

NextSanitize == SanitizePass

SpecSanitize == InitSanitize /\ [][NextSanitize]_vars

----------------------------------------------------------------------------
(* Claims about the download phase *)

MapEnded == pc \in {"returned", "raised"}
InProgress == {j \in 1..NumJobs : jobState[j] = "transferring"}
Started == {j \in 1..NumJobs : jobState[j] # "unstarted"}
Finished == {j \in 1..NumJobs : jobState[j] \in Terminal}

\* what pool.map hands back to main: the result list, or the one exception it raises
RecordedOutcomes == IF success THEN value ELSE <<value>>
RecordedFailures == IF success THEN 0 ELSE 1

\* C1: when pool.map has ended, there are exactly N recorded outcomes, one per
\* submitted job, as many of them failures as there are failed jobs.
C1_OneOutcomePerJob ==
    MapEnded =>
        /\ Len(RecordedOutcomes) = NumJobs
        /\ RecordedFailures = NumFailed

\* C2: a failed job leaves no other job un-run: when pool.map has ended, every job
\* other than a failed one has been started and has reached its own terminal state.
C2_FailureBlocksNoOtherJob ==
    MapEnded =>
        \A f \in 1..NumJobs : \A j \in 1..NumJobs :
            (jobState[f] \in Failed /\ j # f) =>
                (attempts[j] > 0 /\ jobState[j] \in Terminal)

\* C3: at most 4 downloads are in progress at any time, and a job starts only when
\* fewer than 4 are in progress: the started jobs never exceed the finished ones by
\* more than 4.
C3_AtMostFourInProgress ==
    /\ Cardinality(InProgress) <= 4
    /\ Cardinality(Started) <= Cardinality(Finished) + 4

\* C3 witness: 4 downloads in progress while tasks are still waiting in the queue.
C3_Witness ==
    /\ Cardinality(InProgress) = 4
    /\ taskqueue # <<>>
    /\ Cardinality(Started) < NumJobs

\* C4: pool.map has returned or raised only if no job is unstarted or transferring.
C4_EndsOnlyWhenAllTerminal ==
    MapEnded => \A j \in 1..NumJobs : jobState[j] \notin {"unstarted", "transferring"}

\* C5: no job is attempted more than once, and when the download phase has ended every
\* job has been attempted exactly once.
C5_EachJobAttemptedOnce ==
    /\ \A j \in 1..NumJobs : attempts[j] <= 1
    /\ MapEnded => \A j \in 1..NumJobs : attempts[j] = 1

----------------------------------------------------------------------------
(* Claims about extraction and selection.  What a page holds is read off its     *)
(* description, not off the text the code parses.                                *)

IsMatching(e) == e.tag = "script" /\ e.type = "module" /\ e.marker
MatchingBlocks(page) == {k \in 1..Len(page) : IsMatching(page[k])}
TheBlock(page) == page[CHOOSE k \in MatchingBlocks(page) : TRUE].fields
UrlFields(fs) == SelectSeq(fs, LAMBDA f : f.kind = "url")
TitleFields(fs) == SelectSeq(fs, LAMBDA f : f.kind = "title")

\* exactly one metadata block, with at least one url field and one title field, no
\* value empty
WellFormed(page) ==
    /\ Cardinality(MatchingBlocks(page)) = 1
    /\ UrlFields(TheBlock(page)) # <<>>
    /\ TitleFields(TheBlock(page)) # <<>>
    /\ \A k \in 1..Len(TheBlock(page)) :
          IF TheBlock(page)[k].kind = "url"
          THEN RawUrl(TheBlock(page)[k]) # <<>>
          ELSE TheBlock(page)[k].text # <<>>

ResolutionOf(f) ==
    CASE f.digits = <<"7", "2", "0">> -> 720
      [] f.digits = <<"0", "7", "2", "0">> -> 720
      [] f.digits = <<"1", "0", "8", "0">> -> 1080

\* the resolutions a page offers, and the stream URL of each: the one of the last
\* url field of that resolution
Offered(page) ==
    IF Cardinality(MatchingBlocks(page)) = 1 /\ TitleFields(TheBlock(page)) # <<>>
    THEN {ResolutionOf(UrlFields(TheBlock(page))[k]) : k \in 1..Len(UrlFields(TheBlock(page)))}
    ELSE {}
StreamUrl(page, n) ==
    LET us == UrlFields(TheBlock(page))
    IN Join(us[SetMax({k \in 1..Len(us) : ResolutionOf(us[k]) = n})].segs, <<"/">>)

\* the page fetched last, whose result videos and filename hold
Fetched == IF pc = "prompt" \/ uncaught = "EOFError" THEN pathIdx ELSE pathIdx - 1
HasResult == Fetched >= 1 /\ Fetched <= Len(pages)

ExamplePage == <<VideoScript(<<Url720, Url1080, TitleMyClip>>)>>
MyClipMp4 == <<"M", "y", "-", "C", "l", "i", "p", ".", "m", "p", "4">>
HttpXA == <<"h", "t", "t", "p", ":", "/", "/", "x", "/", "a", ".", "m", "p", "4">>
HttpXB == <<"h", "t", "t", "p", ":", "/", "/", "x", "/", "b", ".", "m", "p", "4">>

\* C6: a page with no or with several matching script elements gives an empty
\* resolution map and no filename, and get_videos raises nothing for it.
C6_AmbiguousPageGivesNothing ==
    /\ (HasResult /\ Cardinality(MatchingBlocks(pages[Fetched])) # 1) =>
          (DOMAIN videos = {} /\ filename = NoneName)
    /\ uncaught = "IndexError" => Cardinality(MatchingBlocks(pages[pathIdx])) = 1

\* C6 witness: a page with two matching script elements has been passed over.
C6_Witness ==
    /\ pc = "download"
    /\ pathIdx = 2
    /\ Cardinality(MatchingBlocks(pages[1])) > 1
    /\ DOMAIN videos = {}
    /\ download_files = <<>>

\* C7: a page with exactly one metadata block and well-formed fields gives a
\* non-empty map with one entry per resolution, whose value, with every \/ replaced
\* by /, is the stream URL, and the filename sanitize(title) + ".mp4"; the job made of
\* it holds that filename and the stream URL of the resolution chosen.  The page of
\* url720, url1080 and title "My Clip!" gives 720 -> http://x/a.mp4,
\* 1080 -> http://x/b.mp4 and My-Clip.mp4.
C7_WellFormedPageExtracted ==
    /\ (uncaught = "IndexError") => ~WellFormed(pages[pathIdx])
    /\ (HasResult /\ WellFormed(pages[Fetched])) =>
          /\ DOMAIN videos # {}
          /\ DOMAIN videos = Offered(pages[Fetched])
          /\ \A n \in DOMAIN videos : Unescape(videos[n]) = StreamUrl(pages[Fetched], n)
          /\ filename = Sanitize(TitleFields(TheBlock(pages[Fetched]))[1].text) \o Mp4
    /\ \A k \in 1..Len(download_files) :
          WellFormed(pages[jobMeta[k].page]) =>
             /\ download_files[k][1] =
                   Sanitize(TitleFields(TheBlock(pages[jobMeta[k].page]))[1].text) \o Mp4
             /\ download_files[k][2] = StreamUrl(pages[jobMeta[k].page], jobMeta[k].resolution)
    /\ (HasResult /\ pages[Fetched] = ExamplePage) =>
          /\ DOMAIN videos = {720, 1080}
          /\ Unescape(videos[720]) = HttpXA
          /\ Unescape(videos[1080]) = HttpXB
          /\ filename = MyClipMp4

\* C7 witness: the example page has been extracted and 1080 chosen for it.
C7_Witness ==
    /\ pages = <<ExamplePage>>
    /\ pc = "download"
    /\ download_files = << <<MyClipMp4, HttpXB>> >>

\* the integer a line of InputLines stands for, if it stands for one
IsInteger(line) ==
    line \in { <<"7", "2", "0">>, <<" ", "1", "0", "8", "0", " ">>, <<"+", "7", "2", "0">>,
               <<"4", "8", "0">>, <<"-", "7", "2", "0">> }
IntegerOf(line) ==
    CASE line = <<"7", "2", "0">> -> 720
      [] line = <<" ", "1", "0", "8", "0", " ">> -> 1080
      [] line = <<"+", "7", "2", "0">> -> 720
      [] line = <<"4", "8", "0">> -> 480
      [] line = <<"-", "7", "2", "0">> -> 0 - 720
IsMember(line, options) == IsInteger(line) /\ IntegerOf(line) \in options

\* C8: while get_resolution prompts, every line read so far was no member of the
\* options and was answered by one more prompt; the call has returned only at a line
\* that is a member, and with that member.
C8_ReturnsOnlyMember ==
    /\ pc = "prompt" =>
          /\ prompts = reads + 1
          /\ reads > 0 => ~IsMember(lastInput, Offered(pages[pathIdx]))
          /\ \A k \in 1..Len(jobMeta) : jobMeta[k].page # pathIdx
    /\ \A k \in 1..Len(jobMeta) :
          jobMeta[k].reads > 0 =>
             /\ jobMeta[k].resolution \in Offered(pages[jobMeta[k].page])
             /\ jobMeta[k].prompts = jobMeta[k].reads
    /\ (pc \in {"loop", "download"} /\ reads > 0) =>
          /\ IsMember(lastInput, Offered(pages[pathIdx - 1]))
          /\ jobMeta[Len(jobMeta)].page = pathIdx - 1
          /\ jobMeta[Len(jobMeta)].resolution = IntegerOf(lastInput)

\* C8 witness: get_resolution has returned 1080 at the third line, after two lines
\* that were no members.
C8_Witness ==
    /\ pc \in {"loop", "download"}
    /\ reads = 3
    /\ prompts = 3
    /\ lastInput = <<" ", "1", "0", "8", "0", " ">>
    /\ jobMeta[Len(jobMeta)].resolution = 1080

\* C9: a job of a page that offers exactly one resolution was made without a prompt
\* and without a line read, and holds the one stream URL; get_resolution prompts
\* only for a page that offers several.
C9_SingleResolutionNoPrompt ==
    /\ \A k \in 1..Len(download_files) :
          Cardinality(Offered(pages[jobMeta[k].page])) = 1 =>
             /\ jobMeta[k].prompts = 0
             /\ jobMeta[k].reads = 0
             /\ jobMeta[k].resolution \in Offered(pages[jobMeta[k].page])
             /\ download_files[k][2] = StreamUrl(pages[jobMeta[k].page], jobMeta[k].resolution)
    /\ pc = "prompt" => Cardinality(Offered(pages[pathIdx])) > 1
    /\ (HasResult /\ pc # "prompt" /\ Cardinality(Offered(pages[Fetched])) = 1) =>
          (prompts = 0 /\ reads = 0)

\* C9 witness: the page of url720 alone has given its job, with no prompt.
C9_Witness ==
    /\ Len(download_files) >= 1
    /\ Cardinality(Offered(pages[jobMeta[1].page])) = 1
    /\ download_files[1] = <<MyClipMp4, HttpXA>>
    /\ jobMeta[1].prompts = 0

----------------------------------------------------------------------------
(* Claims about sanitize *)

\* C10: sanitize is idempotent: a second pass of lines 59-61 over the result of the
\* first changes nothing.
C10_SanitizeIdempotent == passes = 2 => name = once

AsciiWord ==
    {"a", "b", "c", "d", "e", "f", "g", "h", "i", "j", "k", "l", "m", "n", "o", "p", "q",
     "r", "s", "t", "u", "v", "w", "x", "y", "z", "A", "B", "C", "D", "E", "F", "G", "H",
     "I", "J", "K", "L", "M", "N", "O", "P", "Q", "R", "S", "T", "U", "V", "W", "X", "Y",
     "Z", "0", "1", "2", "3", "4", "5", "6", "7", "8", "9", "_"}
NoHyphenTrouble(s) ==
    /\ \A k \in 1..(Len(s) - 1) : ~(s[k] = "-" /\ s[k + 1] = "-")
    /\ s # <<>> => (s[1] # "-" /\ s[Len(s)] # "-")

\* C11, as stated: a result of sanitize holds only characters of [A-Za-z0-9_-], no
\* two hyphens in a row, and no hyphen at either end.
C11_AsciiOnly ==
    passes >= 1 =>
        /\ \A k \in 1..Len(name) : name[k] \in AsciiWord \cup {"-"}
        /\ NoHyphenTrouble(name)

\* C11, amended: a result of sanitize holds only word characters of any script
\* (letters, digits, underscore) and hyphens, no whitespace, no two hyphens in a row,
\* and no hyphen at either end.
C11_WordCharsAndHyphens ==
    passes >= 1 =>
        /\ \A k \in 1..Len(name) :
              /\ name[k] \in AsciiWord \cup {JamoL, JamoV, Syllable, "-"}
              /\ name[k] \notin {" ", "\t", "\n", Nbsp, "!"}
        /\ NoHyphenTrouble(name)

\* C11 witness: a title of a letter outside ASCII, blanks and a letter has become the
\* two letters with one hyphen between them.
C11_Witness ==
    /\ passes = 1
    /\ title = <<JamoL, " ", "a">>
    /\ name = <<JamoL, "-", "a">>

----------------------------------------------------------------------------
(* Claims about main's loop over the pages *)

\* get_videos gives no videos for the page: not exactly one metadata block, or a block
\* with a title and no stream URL
YieldsNothing(page) ==
    \/ Cardinality(MatchingBlocks(page)) # 1
    \/ /\ \A k \in 1..Len(UrlFields(TheBlock(page))) : RawUrl(UrlFields(TheBlock(page))[k]) = <<>>
       /\ \E k \in 1..Len(TitleFields(TheBlock(page))) : TitleFields(TheBlock(page))[k].text # <<>>
JobsOfPage(k) == {j \in 1..Len(jobMeta) : jobMeta[j].page = k}
LoopEnded == pc \in {"download", "returned", "raised"}

\* C12: a page whose extraction gives no videos is passed over without ending the
\* run: it adds no job, main never stops at it, the loop goes on to every later page,
\* so that at line 158 every page has been fetched and every page that gave videos has
\* its job, and the pool runs those jobs to their end.
C12_EmptyPageSkipped ==
    /\ \A k \in 1..Len(pages) : YieldsNothing(pages[k]) => JobsOfPage(k) = {}
    /\ pc \in {"crashed", "prompt"} => ~YieldsNothing(pages[pathIdx])
    /\ LoopEnded =>
          /\ pathIdx = Len(pages) + 1
          /\ \A k \in 1..Len(pages) :
                Cardinality(JobsOfPage(k)) = IF YieldsNothing(pages[k]) THEN 0 ELSE 1
    /\ MapEnded => \A j \in 1..NumJobs : jobState[j] \in Terminal
    /\ pc = "returned" => \A j \in 1..NumJobs : jobState[j] = "success"

\* C12 witness: the first page had two metadata blocks, the second gave its job, and
\* the job has been downloaded.
C12_Witness ==
    /\ pc = "returned"
    /\ Len(pages) = 2
    /\ Cardinality(MatchingBlocks(pages[1])) = 2
    /\ download_files = << <<MyClipMp4, HttpXA>> >>
    /\ jobMeta[1].page = 2
    /\ jobState = <<"success">>

\* the run has ended, and not for want of an answer at a prompt
Terminated == MapEnded \/ (pc = "crashed" /\ uncaught # "EOFError")
Attempted == IF pc = "crashed" THEN pathIdx ELSE pathIdx - 1

\* C13, the state a run that has ended is in: every page has been attempted (main
\* has called get_videos for it), and every job of download_files has reached a
\* terminal state.
C13_EndedWithEveryPageAttempted ==
    Terminated =>
        /\ Attempted = Len(pages)
        /\ \A j \in 1..NumJobs : jobState[j] \in Terminal

\* exactly one metadata block, and no "title" field with a value in it
NoTitle(page) ==
    /\ Cardinality(MatchingBlocks(page)) = 1
    /\ \A k \in 1..Len(TitleFields(TheBlock(page))) : TitleFields(TheBlock(page))[k].text = <<>>

\* C14: a page with exactly one metadata block and no "title" field gives the empty
\* result and is passed over: get_videos raises nothing for it, it adds no job, and
\* main goes on to the pages after it and to the download phase.
C14_MissingTitleSkipped ==
    /\ (HasResult /\ NoTitle(pages[Fetched])) => (DOMAIN videos = {} /\ filename = NoneName)
    /\ \A k \in 1..Len(pages) : NoTitle(pages[k]) => JobsOfPage(k) = {}
    /\ pc = "crashed" => ~NoTitle(pages[pathIdx])

\* the title the code takes, the first one of the block, has no letter and no digit
TitleOf(page) == TitleFields(TheBlock(page))[1].text
EmptyName(page) ==
    /\ Cardinality(MatchingBlocks(page)) = 1
    /\ ~NoTitle(page)
    /\ \A k \in 1..Len(TitleOf(page)) : TitleOf(page)[k] \in {"!", "-", "_", " "}

\* C15: a page whose title sanitizes to the empty string counts as a failed
\* extraction: it adds no job, so that no job has the filename ".mp4" or an empty one.
C15_EmptyNameNoJob ==
    /\ \A k \in 1..Len(pages) : EmptyName(pages[k]) => JobsOfPage(k) = {}
    /\ \A j \in 1..Len(download_files) : download_files[j][1] \notin {Mp4, <<>>}

\* C16: no two workers have the same destination filename open for writing at the
\* same time (a job is "transferring" from open(filename, "wb") to the end of its
\* loop over the chunks).
C16_NoSharedDestination ==
    \A w1, w2 \in workers :
        w1 # w2 => download_files[w1.job][1] # download_files[w2.job][1]

\* C18: the end of the input at a prompt ends get_resolution and gives control back to
\* main: the run is not ended by the exception, and the jobs appended so far are kept
\* for the download phase.
C18_EndOfInputReturnsControl ==
    uncaught = "EOFError" => pc # "crashed"

\* pool.map has been called
MapCalled == number_left >= 0

\* C20: extraction strictly precedes the download: pool.map is called, and a download
\* is started, only after every page has been fetched and every prompt answered, and
\* from the moment main reaches line 158 the job list does not change any more.
C20_ExtractionPrecedesDownload ==
    [][ /\ (MapCalled' \/ workers' # {} \/ taskqueue' # <<>>) =>
              /\ pc' \in {"download", "returned", "raised"}
              /\ pathIdx' = Len(pages) + 1
              /\ download_files' = download_files
        /\ pc \in {"download", "returned", "raised"} =>
              /\ download_files' = download_files
              /\ pathIdx' = pathIdx
              /\ prompts' = prompts /\ reads' = reads
              /\ pc' \in {"download", "returned", "raised"} ]_vars

\* C20 witness: both pages are fetched, the prompt of the second has been answered,
\* and the two downloads are under way.
C20_Witness ==
    /\ pc = "download"
    /\ Len(pages) = 2
    /\ Len(download_files) = 2
    /\ jobMeta[2].prompts >= 1
    /\ Cardinality(workers) = 2

----------------------------------------------------------------------------
(* Claims about one download *)

\* C17: in every state of a download the bytes reported to the progress bar are no
\* more than the bytes written; the bar advances by the length of a chunk, and only
\* after that chunk has been written; an empty chunk changes neither count; and after
\* a download that came to its end the two counts are equal.
C17_ProgressNeverAhead ==
    /\ [](/\ reported <= written
          /\ written = IF disk = NoFile \/ ~bar THEN 0 ELSE Len(disk)
          /\ dpc = "done" => (reported = written /\ written = SumLen(iter_content)))
    /\ [][ /\ reported' # reported =>
                /\ reported' = reported + Len(chunk)
                /\ written' = written
                /\ written = reported + Len(chunk)
           /\ (dpc = "iter" /\ chunk' = <<>>) =>
                (written' = written /\ reported' = reported /\ dpc' # "write") ]_vars

\* C17 witness: a body of a chunk of one byte, an empty chunk and a chunk of two bytes
\* has come to its end with three bytes written and three reported.
C17_Witness ==
    /\ dpc = "done"
    /\ iter_content = << <<"x">>, <<>>, <<"x", "y">> >>
    /\ disk = <<"x", "x", "y">>
    /\ reported = 3

\* C19: when the response has an error status, download_file raises before the
\* destination is opened: no file is created, a file already there keeps its
\* content, no byte is written and no progress is reported.
C19_ErrorStatusLeavesNoTrace ==
    (dpc # "idle" /\ status_code >= 400) =>
        /\ dpc \in {"get", "status", "raised"}
        /\ disk = diskBefore
        /\ written = 0
        /\ ~bar
        /\ reported = 0

\* C19 witness: the call has raised on status 404, and the file that was there has
\* its three bytes.
C19_Witness ==
    /\ dpc = "raised"
    /\ status_code = 404
    /\ total_size = -1
    /\ diskBefore = <<"o", "l", "d">>
    /\ disk = <<"o", "l", "d">>

====
